---- MODULE Spec2Model ----
(***************************************************************************)
(* Device binding guard of cc-proxy (internal/device).                     *)
(*                                                                         *)
(* The model follows src/internal/device/binding.go: the DeviceBindings    *)
(* map and its methods (lines 1-108) and the request middleware            *)
(* (lines 110-274), and src/internal/device/handler.go: the management     *)
(* handlers (lines 1-151).  The Store that wraps DeviceBindings with a     *)
(* lock and persistence is not among the sources; each Store call is one   *)
(* atomic step that applies the DeviceBindings method of the same name.    *)
(*                                                                         *)
(* Strings that the code compares with each other (client IPs, header      *)
(* values, device ids, LastIP) are sequences of one-character strings, so  *)
(* that strings.TrimSpace is computed.  API keys are TLA+ strings.  Time is *)
(* in seconds; the zero time.Time is ZeroTime.                             *)
(***************************************************************************)
EXTENDS Integers, Sequences, FiniteSets, TLC

\* ------------------------------------------------------------- bounds
\* Last second of the clock under Spec.
MaxTime == 3
\* Config.ConcurrentThreshold handed to NewMiddleware under Spec, in seconds.
CfgThreshold == 1
\* Last second of the clock under SpecScenario.
ScenarioMaxTime == 65
\* Seconds per clock step under SpecScenario.
ScenarioTick == 5
\* Last second of the clock under SpecSerial.
SerialMaxTime == 3
\* Longest device header value under SpecSingle, in characters.
MaxHeaderLen == 3
\* The scenario's second, third and fifth step, in seconds after the first.
ScenarioSecond == 2 * ScenarioTick
ScenarioThird == 3 * ScenarioTick
ScenarioFifth == 4 * ScenarioTick

\* ---------------------------------------------------------- constants
\* binding.go:121  defaultConcurrentThreshold = 60 * time.Second
defaultConcurrentThreshold == 60
\* binding.go:88  time.Time{} (the zero time, "unset")
ZeroTime == 0
\* the first instant of the clock; time.Now() is never the zero time
StartTime == 1

Procs == {"p1", "p2"}
Keys == {"k1", "k2"}
\* the keys that clients and admins present under Spec
SpecKeys == {"k1"}
NoKey == ""

EmptyStr == << >>
IPa == <<"a">>
IPb == <<"b">>
\* c.ClientIP(): two client addresses, and "" when gin cannot resolve one
ClientIPs == {EmptyStr, IPa, IPb}
\* c.GetHeader(HeaderName): absent, blank, and the declared device id "d"
\* with a space before or after it
HeaderValues == {EmptyStr, <<" ">>, <<" ", "d">>, <<"d", " ">>}

VARIABLES bindings, now, config, storeUp, req, admin, last, scen, accepted

vars == <<bindings, now, config, storeUp, req, admin, last, scen, accepted>>

\* ------------------------------------------------ DeviceBindings (map)

ZeroBinding ==
  [DeviceID |-> EmptyStr, Type |-> "", FirstSeen |-> ZeroTime,
   LastSeen |-> ZeroTime, LastIP |-> EmptyStr, Banned |-> FALSE,
   BanReason |-> << >>, BannedAt |-> ZeroTime]

NewDeviceBindings == [k \in {} |-> ZeroBinding]

Get(d, apiKey) ==
  IF apiKey \in DOMAIN d
    THEN [binding |-> d[apiKey], exists |-> TRUE]
    ELSE [binding |-> ZeroBinding, exists |-> FALSE]

\* What the request handler reads of the binding that Get returned: Banned,
\* LastSeen and LastIP decide its branch and BanReason goes into the reply
\* of a banned key.  The fields it never reads are left at their zero value.
ReadByHandler(got) ==
  [binding |-> [ZeroBinding EXCEPT !.Banned = got.binding.Banned,
                                   !.BanReason = got.binding.BanReason,
                                   !.LastSeen = got.binding.LastSeen,
                                   !.LastIP = got.binding.LastIP],
   exists |-> got.exists]

\* Set as it would be with the LastSeen assignment (binding.go 50) left out.
SetNoLastSeen(d, apiKey, deviceID, deviceType, t) ==
  [k \in (DOMAIN d) \cup {apiKey} |->
     IF k = apiKey
       THEN [ZeroBinding EXCEPT !.DeviceID = deviceID, !.Type = deviceType,
                                !.FirstSeen = t, !.LastIP = deviceID]
       ELSE d[k]]

Set(d, apiKey, deviceID, deviceType, t) ==
  [k \in (DOMAIN d) \cup {apiKey} |->
     IF k = apiKey
       THEN [ZeroBinding EXCEPT !.DeviceID = deviceID, !.Type = deviceType,
                                !.FirstSeen = t, !.LastSeen = t,
                                !.LastIP = deviceID]
       ELSE d[k]]

\* UpdateLastSeen as it would be with the LastIP assignment (binding.go 62)
\* left out.
UpdateLastSeenKeepIP(d, apiKey, currentIP, t) ==
  IF apiKey \in DOMAIN d
    THEN [d EXCEPT ![apiKey] = [@ EXCEPT !.LastSeen = t]]
    ELSE d

\* UpdateLastSeen as it would be without the check that the key exists
\* (binding.go 60): the assignments made on a zero binding that is stored.
UpdateLastSeenUpsert(d, apiKey, currentIP, t) ==
  [k \in (DOMAIN d) \cup {apiKey} |->
     IF k = apiKey
       THEN [(IF k \in DOMAIN d THEN d[k] ELSE ZeroBinding)
               EXCEPT !.LastSeen = t, !.LastIP = currentIP]
       ELSE d[k]]

UpdateLastSeen(d, apiKey, currentIP, t) ==
  IF apiKey \in DOMAIN d
    THEN [d EXCEPT ![apiKey] = [@ EXCEPT !.LastSeen = t, !.LastIP = currentIP]]
    ELSE d

\* Ban as it would be with the BannedAt assignment (binding.go 75) left out.
BanNoTimestamp(d, apiKey, reason, t) ==
  IF apiKey \in DOMAIN d
    THEN [d EXCEPT ![apiKey] = [@ EXCEPT !.Banned = TRUE, !.BanReason = reason]]
    ELSE d

\* Ban as it would be with the Banned assignment (binding.go 73) left out.
BanNoFlag(d, apiKey, reason, t) ==
  IF apiKey \in DOMAIN d
    THEN [d EXCEPT ![apiKey] = [@ EXCEPT !.BanReason = reason, !.BannedAt = t]]
    ELSE d

\* Ban as it would be if it flipped Banned instead of setting it (binding.go
\* 73).
BanToggle(d, apiKey, reason, t) ==
  IF apiKey \in DOMAIN d
    THEN [d EXCEPT ![apiKey] = [@ EXCEPT !.Banned = ~@, !.BanReason = reason,
                                         !.BannedAt = t]]
    ELSE d

Ban(d, apiKey, reason, t) ==
  IF apiKey \in DOMAIN d
    THEN [d EXCEPT ![apiKey] = [@ EXCEPT !.Banned = TRUE, !.BanReason = reason,
                                         !.BannedAt = t]]
    ELSE d

\* Unban as it would be with the Banned assignment (binding.go 86) left out.
UnbanKeepFlag(d, apiKey) ==
  IF apiKey \in DOMAIN d
    THEN [d EXCEPT ![apiKey] = [@ EXCEPT !.BanReason = << >>,
                                         !.BannedAt = ZeroTime]]
    ELSE d

\* Unban as it would be with the BanReason assignment (binding.go 87) left
\* out.
UnbanKeepReason(d, apiKey) ==
  IF apiKey \in DOMAIN d
    THEN [d EXCEPT ![apiKey] = [@ EXCEPT !.Banned = FALSE,
                                         !.BannedAt = ZeroTime]]
    ELSE d

Unban(d, apiKey) ==
  IF apiKey \in DOMAIN d
    THEN [d EXCEPT ![apiKey] = [@ EXCEPT !.Banned = FALSE, !.BanReason = << >>,
                                         !.BannedAt = ZeroTime]]
    ELSE d

\* Delete as it would be without the check that the key exists (binding.go
\* 98-101).
DeleteReportsTrue(d, apiKey) ==
  [map |-> [k \in (DOMAIN d) \ {apiKey} |-> d[k]],
   deleted |-> TRUE]

Delete(d, apiKey) ==
  [map |-> [k \in (DOMAIN d) \ {apiKey} |-> d[k]],
   deleted |-> apiKey \in DOMAIN d]

Clear(d) == [k \in {} |-> ZeroBinding]

\* --------------------------------------------------- Store (lock + file)
\* A Store call takes the lock, applies the DeviceBindings method and
\* persists.  With the backend down the call returns an error and the map is
\* left as it was.
StoreApply(up, old, new) == IF up THEN new ELSE old

StoreErr(up) == ~up

\* ------------------------------------------------------------ Middleware

NewMiddleware(cfg) ==
  [Enabled |-> cfg.Enabled,
   MaxDevices |-> IF cfg.MaxDevices <= 0 THEN 1 ELSE cfg.MaxDevices,
   HeaderName |-> IF cfg.HeaderName = "" THEN "X-Device-ID" ELSE cfg.HeaderName,
   ConcurrentThreshold |-> IF cfg.ConcurrentThreshold <= 0
                             THEN defaultConcurrentThreshold
                             ELSE cfg.ConcurrentThreshold]

IsSpace(c) == c = " "

RECURSIVE TrimLeft(_)
TrimLeft(s) ==
  IF s # << >> /\ IsSpace(Head(s)) THEN TrimLeft(Tail(s)) ELSE s

RECURSIVE TrimRight(_)
TrimRight(s) ==
  IF s # << >> /\ IsSpace(s[Len(s)])
    THEN TrimRight(SubSeq(s, 1, Len(s) - 1))
    ELSE s

TrimSpace(s) == TrimRight(TrimLeft(s))

\* extractDeviceID as it would be if it returned the header value as received
\* (binding.go 268 returns trimmed).
extractDeviceIDUntrimmed(header, clientIP) ==
  IF header # EmptyStr /\ TrimSpace(header) # EmptyStr
    THEN [deviceID |-> header, deviceType |-> "client_id"]
    ELSE [deviceID |-> clientIP, deviceType |-> "ip"]

\* extractDeviceID: header is c.GetHeader(m.config.HeaderName)
extractDeviceID(header, clientIP) ==
  IF header # EmptyStr /\ TrimSpace(header) # EmptyStr
    THEN [deviceID |-> TrimSpace(header), deviceType |-> "client_id"]
    ELSE [deviceID |-> clientIP, deviceType |-> "ip"]

BanReasonText(elapsed) ==
  <<"Concurrent usage detected: different IP within ", elapsed>>

\* Decision as it would be without the banned branch (binding.go 224-232).
DecisionNoBanCheck(got, currentIP, elapsed, threshold) ==
  IF ~got.exists THEN "register"
  ELSE IF got.binding.LastIP # EmptyStr /\ got.binding.LastIP # currentIP
          /\ elapsed < threshold THEN "ban"
  ELSE "update"

\* Decision as it would be without binding.LastIP != "" (binding.go 236).
DecisionNoEmptyGuard(got, currentIP, elapsed, threshold) ==
  IF ~got.exists THEN "register"
  ELSE IF got.binding.Banned THEN "banned"
  ELSE IF got.binding.LastIP # currentIP /\ elapsed < threshold THEN "ban"
  ELSE "update"

\* Decision as it would be with <= for < (binding.go 236).
DecisionAtMost(got, currentIP, elapsed, threshold) ==
  IF ~got.exists THEN "register"
  ELSE IF got.binding.Banned THEN "banned"
  ELSE IF got.binding.LastIP # EmptyStr /\ got.binding.LastIP # currentIP
          /\ elapsed <= threshold THEN "ban"
  ELSE "update"

\* The branch the handler takes after store.Get (binding.go 210-258), as a
\* function of what Get returned, the client IP and time.Since(LastSeen).
Decision(got, currentIP, elapsed, threshold) ==
  IF ~got.exists THEN "register"
  ELSE IF got.binding.Banned THEN "banned"
  ELSE IF got.binding.LastIP # EmptyStr /\ got.binding.LastIP # currentIP
          /\ elapsed < threshold THEN "ban"
  ELSE "update"

Outcome(branch) ==
  CASE branch = "register" -> "allowed"
    [] branch = "update" -> "allowed"
    [] branch = "banned" -> "api_key_banned"
    [] branch = "ban" -> "concurrent_usage_detected"

\* Reply as it would be if the handler answered a failed Store call with an
\* error (binding.go 212-215, 240-242, 254-256 only log it).
ReplyFailsOnError(branch, err) ==
  IF err THEN "internal_error" ELSE Outcome(branch)

\* What the handler answers after its Store call returned err (binding.go
\* 212-258): the error is logged and the reply is that of the branch.
Reply(branch, err) == Outcome(branch)

NoGet == [binding |-> ZeroBinding, exists |-> FALSE]

\* The situation a request is decided in, in the words of the specification:
\* what Get returned against the request's client IP and the elapsed time.
RequestCase(got, currentIP, elapsed, threshold) ==
  IF ~got.exists THEN "unseen"
  ELSE IF got.binding.Banned THEN "banned"
  ELSE IF got.binding.LastIP = EmptyStr THEN "no_last_ip"
  ELSE IF got.binding.LastIP = currentIP THEN "same_ip"
  ELSE IF elapsed < threshold THEN "other_ip_within"
  ELSE IF elapsed = threshold THEN "other_ip_at_threshold"
  ELSE "other_ip_after"

\* The case as last records it: a request that saw another IP within the
\* threshold and finds the key banned already when its Ban is applied is told
\* apart from the one that bans first.
StoreCase(case, bannedAlready) ==
  IF case = "other_ip_within" /\ bannedAlready
    THEN "other_ip_within_banned"
    ELSE case

\* A request in flight: pc and what the handler holds in its locals.
IdleReq ==
  [pc |-> "idle", apiKey |-> NoKey, clientIP |-> EmptyStr,
   deviceID |-> EmptyStr, deviceType |-> "", got |-> NoGet]

\* last: the operation that completed last (a request or a management
\* call), its key, its result as the caller sees it and, for a request, the
\* case it was decided in.
NoOp == [op |-> "", key |-> NoKey, result |-> "", case |-> ""]

Done(op, key, result, case) ==
  [op |-> op, key |-> key, result |-> result, case |-> case]

\* the HTTP status of a result (an allowed request goes on to c.Next())
Status(result) ==
  CASE result \in {"allowed", "ok"} -> 200
    [] result \in {"api_key_banned", "concurrent_usage_detected"} -> 403
    [] result \in {"missing_parameter", "not_banned"} -> 400
    [] result = "not_found" -> 404
    [] result = "internal_error" -> 500

\* SkipReason as it would be without the check of deviceID (binding.go
\* 199-204).
SkipReasonNoDeviceCheck(enabled, apiKey, deviceID) ==
  IF ~enabled THEN "disabled"
  ELSE IF apiKey = NoKey THEN "no_api_key"
  ELSE ""

\* The early returns of Handler (binding.go 160-163, 166-172, 199-204): why
\* the request goes on to c.Next() without a store call, "" when it does not.
SkipReason(enabled, apiKey, deviceID) ==
  IF ~enabled THEN "disabled"
  ELSE IF apiKey = NoKey THEN "no_api_key"
  ELSE IF deviceID = EmptyStr THEN "no_device_id"
  ELSE ""

\* Handler, binding.go 158-208: the early returns, extractDeviceID and
\* store.Get.  A request that returns early is done in this step.
Lookup(p, apiKey, clientIP, header) ==
  /\ req[p].pc = "idle"
  /\ LET id == extractDeviceID(header, clientIP)
         skip == SkipReason(config.Enabled, apiKey, id.deviceID)
     IN IF skip # ""
          THEN /\ req' = req
               /\ last' = Done("request", apiKey, "allowed", skip)
          ELSE /\ req' = [req EXCEPT ![p] =
                            [pc |-> "looked", apiKey |-> apiKey,
                             clientIP |-> clientIP, deviceID |-> id.deviceID,
                             deviceType |-> id.deviceType,
                             got |-> ReadByHandler(Get(bindings, apiKey))]]
               /\ last' = last
  /\ UNCHANGED <<bindings, now, config, storeUp, admin>>

\* Handler, binding.go 210-258: register, reject a banned key, ban on
\* concurrent use, or update last seen; one Store call at most.
Decide(p) ==
  /\ req[p].pc = "looked"
  /\ LET r == req[p]
         elapsed == now - r.got.binding.LastSeen
         branch == Decision(r.got, r.clientIP, elapsed,
                            config.ConcurrentThreshold)
         new == CASE branch = "register" ->
                       Set(bindings, r.apiKey, r.deviceID, r.deviceType, now)
                  [] branch = "banned" -> bindings
                  [] branch = "ban" ->
                       Ban(bindings, r.apiKey, BanReasonText(elapsed), now)
                  [] branch = "update" ->
                       UpdateLastSeen(bindings, r.apiKey, r.clientIP, now)
     IN /\ bindings' = StoreApply(storeUp, bindings, new)
        /\ req' = [req EXCEPT ![p] = IdleReq]
        /\ last' = Done("request", r.apiKey,
                        Reply(branch, branch # "banned" /\ StoreErr(storeUp)),
                        StoreCase(RequestCase(r.got, r.clientIP, elapsed,
                                              config.ConcurrentThreshold),
                                  Get(bindings, r.apiKey).binding.Banned))
  /\ UNCHANGED <<now, config, storeUp, admin>>

\* ------------------------------------------------- management handlers

IdleAdmin == [pc |-> "idle", key |-> NoKey]

\* GetBindings, handler.go 23-48 (key is the trimmed api-key parameter)
GetBindings(key) ==
  /\ admin.pc = "idle"
  /\ last' = IF key # NoKey /\ ~Get(bindings, key).exists
               THEN Done("list", key, "not_found", "")
               ELSE Done("list", key, "ok", "")
  /\ UNCHANGED <<bindings, now, config, storeUp, req, admin>>

\* DeleteBinding, handler.go 53-97
DeleteBinding(key) ==
  /\ admin.pc = "idle"
  /\ LET new == IF key # NoKey THEN Delete(bindings, key).map
                               ELSE Clear(bindings)
         deleted == IF key # NoKey THEN Delete(bindings, key).deleted
                                   ELSE TRUE
     IN /\ bindings' = StoreApply(storeUp, bindings, new)
        /\ last' = IF StoreErr(storeUp)
                     THEN Done("delete", key, "internal_error", "")
                   ELSE IF ~deleted
                     THEN Done("delete", key, "not_found", "")
                   ELSE Done("delete", key, "ok", "")
  /\ UNCHANGED <<now, config, storeUp, req, admin>>

\* UnbanKey, handler.go 101-127: the parameter check, store.Get and the
\* check of binding.Banned
UnbanKeyLookup(key) ==
  /\ admin.pc = "idle"
  /\ LET got == Get(bindings, key)
     IN IF key = NoKey
          THEN /\ last' = Done("unban", key, "missing_parameter", "")
               /\ admin' = admin
        ELSE IF ~got.exists
          THEN /\ last' = Done("unban", key, "not_found", "")
               /\ admin' = admin
        ELSE IF ~got.binding.Banned
          THEN /\ last' = Done("unban", key, "not_banned", "")
               /\ admin' = admin
        ELSE /\ last' = last
             /\ admin' = [pc |-> "unban", key |-> key]
  /\ UNCHANGED <<bindings, now, config, storeUp, req>>

\* UnbanKey, handler.go 129-142: store.Unban and the reply
UnbanKeyApply ==
  /\ admin.pc = "unban"
  /\ bindings' = StoreApply(storeUp, bindings, Unban(bindings, admin.key))
  /\ last' = IF StoreErr(storeUp)
               THEN Done("unban", admin.key, "internal_error", "")
               ELSE Done("unban", admin.key, "ok", "")
  /\ admin' = IdleAdmin
  /\ UNCHANGED <<now, config, storeUp, req>>

\* ------------------------------------------------------------- the clock

Tick(d, last_second) ==
  /\ now + d <= last_second
  /\ now' = now + d
  /\ UNCHANGED <<bindings, config, storeUp, req, admin, last>>

\* ------------------------------------------- the end-to-end scenario
\* scen follows the inputs of the scenario "first request for ScenarioKey from
\* IP A at t0; request from IP B # A at t0+10s; request from A at t0+15s;
\* admin Unban; request from A at t0+20s": stage counts the steps whose
\* inputs have occurred, in order, with no other operation in between.

ScenarioKey == "k1"

NoScenario == [stage |-> 0, A |-> EmptyStr, B |-> EmptyStr, t0 |-> ZeroTime]

RequestEvent(apiKey, clientIP, deviceType, t) ==
  [op |-> "request", key |-> apiKey, ip |-> clientIP, type |-> deviceType,
   at |-> t]

AdminEvent(op, key) ==
  [op |-> op, key |-> key, ip |-> EmptyStr, type |-> "", at |-> ZeroTime]

\* the scenario's first step: a request for the unseen ScenarioKey, identified
\* by its client IP
StartsScenario(ev, unseen) ==
  /\ ev.op = "request" /\ ev.key = ScenarioKey
  /\ ev.type = "ip" /\ unseen

RequestFrom(ev, ip, t) ==
  ev.op = "request" /\ ev.key = ScenarioKey /\ ev.ip = ip /\ ev.at = t

ObserveUnseen(sc, ev, unseen) ==
  IF sc.stage = 1 /\ ev.op = "request" /\ ev.key = ScenarioKey
       /\ ev.ip # EmptyStr /\ ev.ip # sc.A /\ ev.at = sc.t0 + ScenarioSecond
    THEN [sc EXCEPT !.stage = 2, !.B = ev.ip]
  ELSE IF sc.stage = 2 /\ RequestFrom(ev, sc.A, sc.t0 + ScenarioThird)
    THEN [sc EXCEPT !.stage = 3]
  ELSE IF sc.stage = 3 /\ ev.op = "unban" /\ ev.key = ScenarioKey
    THEN [sc EXCEPT !.stage = 4]
  ELSE IF sc.stage = 4 /\ RequestFrom(ev, sc.A, sc.t0 + ScenarioFifth)
    THEN [sc EXCEPT !.stage = 5]
  ELSE IF StartsScenario(ev, unseen)
    THEN [stage |-> 1, A |-> ev.ip, B |-> EmptyStr, t0 |-> ev.at]
  ELSE NoScenario

\* ev completes in the step observed: whether its key was unseen is read from
\* the case the request was decided in
Observe(sc, ev) == ObserveUnseen(sc, ev, last'.case = "unseen")

\* ------------------------------------------------------ specification

\* accepted: the request allowed last after a store lookup, its client IP and
\* the time it was allowed at (followed under SpecRace only)
NoAccepted == [any |-> FALSE, ip |-> EmptyStr, at |-> ZeroTime]

InitLoaded(cfg, loaded) ==
  /\ bindings = loaded
  /\ now = StartTime
  /\ config = NewMiddleware(cfg)
  /\ storeUp = TRUE
  /\ req = [p \in Procs |-> IdleReq]
  /\ admin = IdleAdmin
  /\ last = NoOp
  /\ scen = NoScenario
  /\ accepted = NoAccepted

InitWith(cfg) == InitLoaded(cfg, NewDeviceBindings)

\* Spec: the guard with the feature on or off and a configured threshold;
\* requests of Procs interleave with each other and with management calls.
Init ==
  \E enabled \in BOOLEAN :
    InitWith([Enabled |-> enabled, MaxDevices |-> 0, HeaderName |-> "",
              ConcurrentThreshold |-> CfgThreshold])

Next ==
  \/ \E p \in Procs, apiKey \in SpecKeys \cup {NoKey}, clientIP \in ClientIPs,
        header \in HeaderValues :
       Lookup(p, apiKey, clientIP, header) /\ UNCHANGED <<scen, accepted>>
  \/ \E p \in Procs : Decide(p) /\ UNCHANGED <<scen, accepted>>
  \/ \E key \in SpecKeys \cup {NoKey} : GetBindings(key) /\ UNCHANGED <<scen, accepted>>
  \/ \E key \in SpecKeys \cup {NoKey} : DeleteBinding(key) /\ UNCHANGED <<scen, accepted>>
  \/ \E key \in SpecKeys \cup {NoKey} : UnbanKeyLookup(key) /\ UNCHANGED <<scen, accepted>>
  \/ UnbanKeyApply /\ UNCHANGED <<scen, accepted>>
  \/ Tick(1, MaxTime) /\ UNCHANGED <<scen, accepted>>

Spec == Init /\ [][Next]_vars

\* SpecScenario: the guard with the feature on and the default threshold
\* (60 s); the clock moves in steps of ScenarioTick seconds; requests and
\* management calls on ScenarioKey run one at a time, each to completion
\* before the next starts.  scen follows the inputs of the end-to-end
\* scenario.
InitScenario ==
  InitWith([Enabled |-> TRUE, MaxDevices |-> 0, HeaderName |-> "",
            ConcurrentThreshold |-> 0])

Quiet == admin.pc = "idle" /\ \A p \in Procs : req[p].pc = "idle"

NextScenario ==
  \/ \E apiKey \in {ScenarioKey, NoKey}, clientIP \in ClientIPs,
        header \in HeaderValues :
       /\ Quiet
       /\ Lookup("p1", apiKey, clientIP, header)
       /\ scen' = IF req'["p1"].pc = "looked"
                    THEN scen
                    ELSE Observe(scen, RequestEvent(apiKey, clientIP, "", now))
       /\ UNCHANGED accepted
  \/ /\ Decide("p1")
     /\ scen' = Observe(scen, RequestEvent(req["p1"].apiKey, req["p1"].clientIP,
                                           req["p1"].deviceType, now))
     /\ UNCHANGED accepted
  \/ \E key \in {ScenarioKey, NoKey} :
       /\ Quiet
       /\ GetBindings(key)
       /\ scen' = Observe(scen, AdminEvent("list", key))
       /\ UNCHANGED accepted
  \/ \E key \in {ScenarioKey, NoKey} :
       /\ Quiet
       /\ DeleteBinding(key)
       /\ scen' = Observe(scen, AdminEvent("delete", key))
       /\ UNCHANGED accepted
  \/ \E key \in {ScenarioKey, NoKey} :
       /\ Quiet
       /\ UnbanKeyLookup(key)
       /\ scen' = IF admin'.pc = "unban"
                    THEN scen
                    ELSE Observe(scen, AdminEvent("unban", key))
       /\ UNCHANGED accepted
  \/ /\ UnbanKeyApply
     /\ scen' = Observe(scen, AdminEvent("unban", admin.key))
     /\ UNCHANGED accepted
  \/ Tick(ScenarioTick, ScenarioMaxTime) /\ UNCHANGED <<scen, accepted>>

SpecScenario == InitScenario /\ [][NextScenario]_vars

\* SpecSerial: both keys; requests and management calls run one at a time,
\* each to completion before the next starts.  The feature is on or off and
\* the store starts with what it holds from earlier runs: nothing, or a
\* binding of "k2", banned or not.
LoadedKey == "k2"

LoadedBinding(banned) ==
  [DeviceID |-> IPb, Type |-> "ip", FirstSeen |-> StartTime,
   LastSeen |-> StartTime, LastIP |-> IPb, Banned |-> banned,
   BanReason |-> IF banned THEN BanReasonText(StartTime - StartTime)
                           ELSE << >>,
   BannedAt |-> IF banned THEN StartTime ELSE ZeroTime]

LoadedStores ==
  {NewDeviceBindings}
    \cup {[k \in {LoadedKey} |-> LoadedBinding(banned)] : banned \in BOOLEAN}

InitSerial ==
  \E enabled \in BOOLEAN, loaded \in LoadedStores :
    InitLoaded([Enabled |-> enabled, MaxDevices |-> 0, HeaderName |-> "",
                ConcurrentThreshold |-> CfgThreshold], loaded)

NextSerial ==
  \/ \E apiKey \in Keys \cup {NoKey}, clientIP \in ClientIPs,
        header \in HeaderValues :
       /\ Quiet
       /\ Lookup("p1", apiKey, clientIP, header)
       /\ UNCHANGED <<scen, accepted>>
  \/ Decide("p1") /\ UNCHANGED <<scen, accepted>>
  \/ \E key \in Keys \cup {NoKey} :
       Quiet /\ GetBindings(key) /\ UNCHANGED <<scen, accepted>>
  \/ \E key \in Keys \cup {NoKey} :
       Quiet /\ DeleteBinding(key) /\ UNCHANGED <<scen, accepted>>
  \/ \E key \in Keys \cup {NoKey} :
       Quiet /\ UnbanKeyLookup(key) /\ UNCHANGED <<scen, accepted>>
  \/ UnbanKeyApply /\ UNCHANGED <<scen, accepted>>
  \/ Tick(1, SerialMaxTime) /\ UNCHANGED <<scen, accepted>>

SpecSerial == InitSerial /\ [][NextSerial]_vars

\* SpecFault: SpecSerial's runs on ScenarioKey with the feature on and an
\* empty store to start with, and a store backend that goes down and comes
\* back between calls.
StoreFlip ==
  /\ storeUp' = ~storeUp
  /\ UNCHANGED <<bindings, now, config, req, admin, last>>

InitFault ==
  InitWith([Enabled |-> TRUE, MaxDevices |-> 0, HeaderName |-> "",
            ConcurrentThreshold |-> CfgThreshold])

NextFault ==
  \/ \E apiKey \in {ScenarioKey, NoKey}, clientIP \in ClientIPs,
        header \in HeaderValues :
       /\ Quiet
       /\ Lookup("p1", apiKey, clientIP, header)
       /\ UNCHANGED <<scen, accepted>>
  \/ Decide("p1") /\ UNCHANGED <<scen, accepted>>
  \/ \E key \in {ScenarioKey, NoKey} :
       Quiet /\ GetBindings(key) /\ UNCHANGED <<scen, accepted>>
  \/ \E key \in {ScenarioKey, NoKey} :
       Quiet /\ DeleteBinding(key) /\ UNCHANGED <<scen, accepted>>
  \/ \E key \in {ScenarioKey, NoKey} :
       Quiet /\ UnbanKeyLookup(key) /\ UNCHANGED <<scen, accepted>>
  \/ UnbanKeyApply /\ UNCHANGED <<scen, accepted>>
  \/ StoreFlip /\ UNCHANGED <<scen, accepted>>
  \/ Tick(1, MaxTime) /\ UNCHANGED <<scen, accepted>>

SpecFault == InitFault /\ [][NextFault]_vars

\* SpecRace: requests of Procs for ScenarioKey interleave, with the feature
\* on and no management call; accepted follows the request allowed last.
Accept(p) ==
  IF last'.result = "allowed"
    THEN [any |-> TRUE, ip |-> req[p].clientIP, at |-> now]
    ELSE accepted

NextRace ==
  \/ \E p \in Procs, clientIP \in ClientIPs, header \in HeaderValues :
       /\ Lookup(p, ScenarioKey, clientIP, header)
       /\ UNCHANGED <<scen, accepted>>
  \/ \E p \in Procs :
       /\ Decide(p)
       /\ accepted' = Accept(p)
       /\ UNCHANGED scen
  \/ Tick(1, MaxTime) /\ UNCHANGED <<scen, accepted>>

SpecRace == InitFault /\ [][NextRace]_vars

\* SpecSingle: one client, at the address IPa, sends its requests for either
\* key one after the other, with or without a device header; no other client
\* and no management call.
RECURSIVE SeqsUpTo(_, _)
SeqsUpTo(chars, n) ==
  IF n = 0 THEN {<< >>}
  ELSE LET shorter == SeqsUpTo(chars, n - 1)
       IN shorter \cup {Append(h, c) : h \in shorter, c \in chars}

\* c.GetHeader(HeaderName): every string of spaces and "d" up to MaxHeaderLen
DeclaredHeaders == SeqsUpTo({" ", "d"}, MaxHeaderLen)

NextSingle ==
  \/ \E apiKey \in Keys, header \in DeclaredHeaders :
       /\ Quiet
       /\ Lookup("p1", apiKey, IPa, header)
       /\ UNCHANGED <<scen, accepted>>
  \/ Decide("p1") /\ UNCHANGED <<scen, accepted>>
  \/ Tick(1, MaxTime) /\ UNCHANGED <<scen, accepted>>

SpecSingle == InitFault /\ [][NextSingle]_vars

\* ---------------------------------------------------------------- claims

IsBound(d, k) == k \in DOMAIN d

IsBanned(d, k) == k \in DOMAIN d /\ d[k].Banned

BanFieldsSet(b) == b.BanReason # << >> /\ b.BannedAt # ZeroTime

BanFieldsClear(b) == ~b.Banned /\ b.BanReason = << >> /\ b.BannedAt = ZeroTime

\* the step in which p's request passes the early returns and reads the store
LookupStep(p) == req[p].pc = "idle" /\ req'[p].pc = "looked"

\* the step in which p's request is decided and its Store call applied
DecideStep(p) == req[p].pc = "looked" /\ req'[p].pc = "idle"

Elapsed(p) == now - req[p].got.binding.LastSeen

\* p's request was read against a bound, unbanned binding whose LastIP is an
\* address other than the request's client IP
SawOtherIP(p) ==
  /\ req[p].got.exists
  /\ ~req[p].got.binding.Banned
  /\ req[p].got.binding.LastIP # EmptyStr
  /\ req[p].got.binding.LastIP # req[p].clientIP

\* C1: a request read against a bound, unbanned binding with LastIP = A, from
\* a client IP B # A, decided with elapsed = now - LastSeen < ConcurrentThreshold
\* is rejected with concurrent_usage_detected, and when it completes the key's
\* binding (the key still being bound when Ban is applied) has Banned = TRUE,
\* a non-empty BanReason and BannedAt set.
C1_ConcurrentUseIsBanned ==
  [][\A p \in Procs :
       (DecideStep(p) /\ SawOtherIP(p)
          /\ Elapsed(p) < config.ConcurrentThreshold)
       => /\ last'.result = "concurrent_usage_detected"
          /\ IsBound(bindings, req[p].apiKey)
               => /\ IsBanned(bindings', req[p].apiKey)
                  /\ BanFieldsSet(bindings'[req[p].apiKey])]_vars

C1_Witness ==
  /\ last.op = "request"
  /\ last.case = "other_ip_within"
  /\ last.result = "concurrent_usage_detected"
  /\ IsBanned(bindings, last.key)
  /\ BanFieldsSet(bindings[last.key])

C3_BanTerminalUntilReset ==
  [][\A k \in Keys :
       (IsBanned(bindings, k) /\ req' # req) => IsBanned(bindings', k)]_vars

\* C4: the first request for a key with no binding, with any device identity,
\* is allowed and creates a binding with FirstSeen = LastSeen, Banned = FALSE,
\* an empty BanReason and BannedAt unset.
C4_FirstRequestRegisters ==
  [][\A p \in Procs :
       (DecideStep(p) /\ ~req[p].got.exists)
       => /\ last'.result = "allowed"
          /\ IsBound(bindings', req[p].apiKey)
          /\ bindings'[req[p].apiKey].FirstSeen
               = bindings'[req[p].apiKey].LastSeen
          /\ bindings'[req[p].apiKey].FirstSeen # ZeroTime
          /\ BanFieldsClear(bindings'[req[p].apiKey])]_vars

C4_Witness ==
  /\ last.op = "request"
  /\ last.case = "unseen"
  /\ last.result = "allowed"
  /\ IsBound(bindings, last.key)
  /\ bindings[last.key].Type = "client_id"
  /\ bindings[last.key].FirstSeen = bindings[last.key].LastSeen
  /\ BanFieldsClear(bindings[last.key])

\* C5: a request read against a bound, unbanned binding whose LastIP equals
\* the request's client IP, or is empty, is allowed whatever the elapsed time
\* (below, at or above ConcurrentThreshold), and does not ban the key.
C5_SameIPAlwaysAllowed ==
  [][\A p \in Procs :
       (DecideStep(p) /\ req[p].got.exists /\ ~req[p].got.binding.Banned
          /\ (req[p].got.binding.LastIP = req[p].clientIP
                \/ req[p].got.binding.LastIP = EmptyStr))
       => /\ last'.result = "allowed"
          /\ IsBanned(bindings', req[p].apiKey)
               => IsBanned(bindings, req[p].apiKey)]_vars

C5_Witness ==
  /\ last.op = "request"
  /\ last.case = "no_last_ip"
  /\ last.result = "allowed"
  /\ IsBound(bindings, last.key)
  /\ ~bindings[last.key].Banned
  /\ bindings[last.key].LastIP # EmptyStr

\* C6: a request read against a bound, unbanned binding with LastIP = A, from
\* a client IP B # A, decided with elapsed >= ConcurrentThreshold (the boundary
\* included) is allowed; the key (bound and unbanned when the request's
\* UpdateLastSeen is applied) is not banned, its LastIP becomes B and its
\* LastSeen the current time.
C6_OtherIPAfterThresholdAllowed ==
  [][\A p \in Procs :
       (DecideStep(p) /\ SawOtherIP(p)
          /\ Elapsed(p) >= config.ConcurrentThreshold)
       => /\ last'.result = "allowed"
          /\ (IsBound(bindings, req[p].apiKey)
                /\ ~IsBanned(bindings, req[p].apiKey))
               => /\ IsBound(bindings', req[p].apiKey)
                  /\ ~bindings'[req[p].apiKey].Banned
                  /\ bindings'[req[p].apiKey].LastIP = req[p].clientIP
                  /\ bindings'[req[p].apiKey].LastSeen = now]_vars

C6_Witness ==
  /\ last.op = "request"
  /\ last.case = "other_ip_at_threshold"
  /\ last.result = "allowed"
  /\ IsBound(bindings, last.key)
  /\ ~bindings[last.key].Banned
  /\ bindings[last.key].LastIP = IPb
  /\ bindings[last.key].DeviceID = IPa
  /\ bindings[last.key].LastSeen = now

\* C8: in every reachable state, for every binding in the store,
\* Banned = TRUE if and only if BanReason is non-empty and BannedAt is set.
C8_BanFieldsAgree ==
  \A k \in DOMAIN bindings : bindings[k].Banned <=> BanFieldsSet(bindings[k])

C8_Witness ==
  /\ last.op = "unban"
  /\ last.result = "ok"
  /\ IsBound(bindings, last.key)
  /\ BanFieldsClear(bindings[last.key])

\* C9: each binding's LastIP is the client IP of the request for its key that
\* was accepted last: every step that allows a request and leaves its key
\* bound leaves the binding's LastIP equal to that request's client IP, the
\* registering request included, whether it was identified by its client IP
\* or by a declared device header.
C9_LastIPIsAcceptedClientIP ==
  [][\A p \in Procs :
       (DecideStep(p) /\ last'.result = "allowed"
          /\ IsBound(bindings', req[p].apiKey))
       => bindings'[req[p].apiKey].LastIP = req[p].clientIP]_vars

\* C10: from the creation of a key's binding until an admin Delete or Clear
\* removes it, the binding's FirstSeen never changes, under every
\* interleaving of requests for that key.
C10_FirstSeenImmutable ==
  [][\A k \in Keys :
       (IsBound(bindings, k) /\ IsBound(bindings', k))
       => bindings'[k].FirstSeen = bindings[k].FirstSeen]_vars

\* C7: with ConcurrentThreshold = 60 s, run one at a time on one key: the
\* first request, from IP A at t0, is allowed and leaves LastIP = A; a request
\* from IP B # A at t0+10s is rejected with concurrent_usage_detected and
\* leaves Banned = TRUE; a request from A at t0+15s is rejected with
\* api_key_banned; admin Unban returns 200; a request from A at t0+20s is
\* allowed and LastIP is still A.
C7_EndToEndScenario ==
  /\ config.ConcurrentThreshold = defaultConcurrentThreshold
  /\ scen.stage = 1
       => /\ last.result = "allowed"
          /\ IsBound(bindings, ScenarioKey)
          /\ bindings[ScenarioKey].LastIP = scen.A
  /\ scen.stage = 2
       => /\ last.result = "concurrent_usage_detected"
          /\ IsBanned(bindings, ScenarioKey)
  /\ scen.stage = 3
       => /\ last.result = "api_key_banned"
          /\ IsBanned(bindings, ScenarioKey)
  /\ scen.stage = 4
       => /\ last.op = "unban" /\ Status(last.result) = 200
          /\ ~IsBanned(bindings, ScenarioKey)
  /\ scen.stage = 5
       => /\ last.result = "allowed"
          /\ IsBound(bindings, ScenarioKey)
          /\ ~bindings[ScenarioKey].Banned
          /\ bindings[ScenarioKey].LastIP = scen.A

C7_Witness ==
  /\ scen.stage = 5
  /\ scen.A = IPa /\ scen.B = IPb
  /\ now = scen.t0 + ScenarioFifth
  /\ last.op = "request" /\ last.result = "allowed"
  /\ bindings[ScenarioKey].LastIP = IPa

\* an Unban call that is answered without a store mutation
UnbanRefusedStep ==
  admin.pc = "idle" /\ admin'.pc = "idle" /\ last'.op = "unban" /\ last' # last

\* an Unban call whose store.Unban is applied and answered
UnbanApplyStep == admin.pc = "unban" /\ admin'.pc = "idle"

\* C11: admin Unban(key), run to completion: with an empty key it answers
\* missing_parameter (400); with a key that has no binding, not_found (404);
\* with a bound key that is not banned, not_banned (400); in these cases the
\* store is left as it was.  Only a banned key gets to store.Unban; the call
\* then answers 200 and the store changes in the key's Banned, BanReason and
\* BannedAt only, which are cleared: DeviceID, Type, FirstSeen, LastSeen,
\* LastIP and every other key's binding are as before.
C11_UnbanOutcomes ==
  [][/\ UnbanRefusedStep
          => /\ bindings' = bindings
             /\ ~IsBanned(bindings, last'.key)
             /\ last'.key = NoKey
                  => /\ last'.result = "missing_parameter"
                     /\ Status(last'.result) = 400
             /\ (last'.key # NoKey /\ ~IsBound(bindings, last'.key))
                  => /\ last'.result = "not_found"
                     /\ Status(last'.result) = 404
             /\ IsBound(bindings, last'.key)
                  => /\ last'.result = "not_banned"
                     /\ Status(last'.result) = 400
     /\ (admin.pc = "idle" /\ admin'.pc = "unban")
          => IsBanned(bindings, admin'.key) /\ bindings' = bindings
     /\ UnbanApplyStep
          => /\ IsBanned(bindings, admin.key)
             /\ last'.op = "unban" /\ last'.key = admin.key
             /\ Status(last'.result) = 200
             /\ bindings' = [bindings EXCEPT ![admin.key] =
                               [@ EXCEPT !.Banned = FALSE,
                                         !.BanReason = << >>,
                                         !.BannedAt = ZeroTime]]]_vars

C11_Witness ==
  /\ last.op = "unban" /\ last.key = "k1" /\ Status(last.result) = 200
  /\ IsBound(bindings, "k1")
  /\ BanFieldsClear(bindings["k1"])
  /\ bindings["k1"].LastIP = IPa
  /\ bindings["k1"].FirstSeen # bindings["k1"].LastSeen
  /\ IsBanned(bindings, LoadedKey)

\* a Delete or Clear call that is applied and answered
DeleteStep == last'.op = "delete" /\ last' # last

\* C12: Delete(K) leaves no binding of K: a Get(K) that follows reports that
\* none exists and a listing of K answers not_found; it reports a deletion
\* (200) exactly when K had a binding (404 otherwise) and leaves the binding
\* of every other key as it was.  Clear() leaves the empty collection, which
\* is what a listing that follows reports.
C12_DeleteAndClear ==
  [][/\ (DeleteStep /\ last'.key # NoKey)
          => /\ ~Get(bindings', last'.key).exists
             /\ last'.result = "ok" <=> IsBound(bindings, last'.key)
             /\ Status(last'.result) = 200 <=> IsBound(bindings, last'.key)
             /\ last'.result # "ok" => Status(last'.result) = 404
             /\ \A k \in Keys \ {last'.key} :
                  Get(bindings', k) = Get(bindings, k)
     /\ (DeleteStep /\ last'.key = NoKey)
          => /\ bindings' = NewDeviceBindings
             /\ \A k \in Keys : ~Get(bindings', k).exists
             /\ Status(last'.result) = 200
     /\ (last.op = "delete" /\ last'.op = "list" /\ last'.key # NoKey
           /\ last.key \in {NoKey, last'.key})
          => last'.result = "not_found"
     /\ (last.op = "delete" /\ last.key = NoKey /\ last'.op = "list"
           /\ last'.key = NoKey)
          => last'.result = "ok" /\ DOMAIN bindings = {}]_vars

C12_Witness ==
  /\ last.op = "delete" /\ last.key = "k1" /\ last.result = "ok"
  /\ ~IsBound(bindings, "k1")
  /\ IsBanned(bindings, "k2")
  /\ bindings["k2"].DeviceID = IPa

\* C13: a key gets a binding only in the step in which a request that found
\* none for it registers: no management call adds a key, and UpdateLastSeen,
\* Ban, Unban and Delete on a key that has no binding leave the collection as
\* it is, also when the binding a request read has been deleted by a
\* management call before the request's store call is applied.
C13_OnlyRegistrationCreates ==
  [][/\ \A k \in Keys :
          (~IsBound(bindings, k) /\ IsBound(bindings', k))
          => \E p \in Procs :
               DecideStep(p) /\ ~req[p].got.exists /\ req[p].apiKey = k
     /\ req' = req => DOMAIN bindings' \subseteq DOMAIN bindings
     /\ \A p \in Procs :
          (DecideStep(p) /\ req[p].got.exists
             /\ ~IsBound(bindings, req[p].apiKey))
          => bindings' = bindings
     /\ (DeleteStep /\ last'.key # NoKey /\ ~IsBound(bindings, last'.key))
          => bindings' = bindings
     /\ \A k \in Keys \ DOMAIN bindings :
          /\ \A ip \in ClientIPs : UpdateLastSeen(bindings, k, ip, now) = bindings
          /\ Ban(bindings, k, BanReasonText(now), now) = bindings
          /\ Unban(bindings, k) = bindings
          /\ Delete(bindings, k).map = bindings]_vars

C13_Witness ==
  /\ last.op = "request" /\ last.case = "same_ip" /\ last.result = "allowed"
  /\ ~IsBound(bindings, last.key)

SkipCases == {"disabled", "no_api_key", "no_device_id"}

\* C14: with the feature disabled, with no API key, or with an empty device
\* identity (no device header value and no client IP) a request is allowed
\* and makes no store call: it is never taken to the store lookup, and the
\* step that allows it leaves the collection as it is, whatever bindings,
\* banned or not, the store holds.
C14_SkippedRequestsTouchNothing ==
  [][/\ \A p \in Procs :
          req'[p].pc = "looked"
          => /\ config.Enabled
             /\ req'[p].apiKey # NoKey
             /\ req'[p].deviceID # EmptyStr
     /\ \A apiKey \in Keys \cup {NoKey}, clientIP \in ClientIPs,
           header \in HeaderValues :
          (\/ ~config.Enabled
           \/ apiKey = NoKey
           \/ extractDeviceID(header, clientIP).deviceID = EmptyStr)
          => SkipReason(config.Enabled, apiKey,
                        extractDeviceID(header, clientIP).deviceID) \in SkipCases
     /\ (last'.op = "request" /\ last' # last
           /\ (~config.Enabled \/ last'.key = NoKey \/ last'.case \in SkipCases))
          => /\ last'.result = "allowed"
             /\ last'.case \in SkipCases
             /\ bindings' = bindings
             /\ req' = req]_vars

C14_Witness ==
  /\ ~config.Enabled
  /\ last.op = "request" /\ last.key = LoadedKey /\ last.case = "disabled"
  /\ last.result = "allowed"
  /\ IsBanned(bindings, LoadedKey)

C14_WitnessNoDeviceID ==
  /\ last.op = "request" /\ last.key = "k1" /\ last.case = "no_device_id"
  /\ last.result = "allowed"
  /\ IsBanned(bindings, "k1")

\* C15: a rejected request does not refresh the binding: a request rejected
\* with api_key_banned leaves the whole collection unchanged; one rejected
\* with concurrent_usage_detected changes the key's Banned, BanReason and
\* BannedAt only; and while a key's binding is banned, no step of any request
\* changes its LastSeen or its LastIP.
C15_RejectionDoesNotRefresh ==
  [][/\ \A p \in Procs :
          DecideStep(p)
          => /\ last'.result = "api_key_banned" => bindings' = bindings
             /\ (last'.result = "concurrent_usage_detected"
                   /\ IsBound(bindings, req[p].apiKey))
                  => bindings' = [bindings EXCEPT ![req[p].apiKey] =
                                    [@ EXCEPT !.Banned = TRUE,
                                       !.BanReason =
                                         bindings'[req[p].apiKey].BanReason,
                                       !.BannedAt =
                                         bindings'[req[p].apiKey].BannedAt]]
     /\ \A k \in Keys :
          (IsBanned(bindings, k) /\ req' # req /\ IsBound(bindings', k))
          => /\ bindings'[k].LastSeen = bindings[k].LastSeen
             /\ bindings'[k].LastIP = bindings[k].LastIP]_vars

C17_ConcurrentUseAlwaysDetected ==
  [][\A p \in Procs :
       (DecideStep(p) /\ accepted.any
          /\ accepted.ip # EmptyStr /\ req[p].clientIP # EmptyStr
          /\ accepted.ip # req[p].clientIP
          /\ now - accepted.at < config.ConcurrentThreshold)
       => last'.result # "allowed"]_vars

\* C18: a single client that uses its keys from one unchanging client IP is
\* never rejected and never banned, over any sequence of its requests and any
\* elapsed times between them, whether it is identified by its client IP or
\* by a declared device header, with no other client and no management call.
C18_SingleClientNeverRejected ==
  /\ last.op = "request" => last.result = "allowed"
  /\ \A k \in Keys : ~IsBanned(bindings, k)

\* C19: Ban is idempotent under concurrent callers: a request that detected
\* concurrent use is rejected with concurrent_usage_detected also when the
\* key has been banned by the other request before its own Ban is applied,
\* in either order of the two; the binding then stays Banned, with BanReason
\* and BannedAt those of one of the two calls, and its DeviceID, Type,
\* FirstSeen, LastSeen and LastIP are unchanged.
C19_BanIdempotent ==
  [][\A p \in Procs :
       (DecideStep(p) /\ SawOtherIP(p)
          /\ Elapsed(p) < config.ConcurrentThreshold)
       => /\ last'.result = "concurrent_usage_detected"
          /\ IsBanned(bindings, req[p].apiKey)
               => LET old == bindings[req[p].apiKey]
                      new == bindings'[req[p].apiKey]
                  IN /\ IsBanned(bindings', req[p].apiKey)
                     /\ new.BanReason
                          \in {old.BanReason, BanReasonText(Elapsed(p))}
                     /\ new.BannedAt \in {old.BannedAt, now}
                     /\ new = [old EXCEPT !.BanReason = new.BanReason,
                                          !.BannedAt = new.BannedAt]]_vars

C19_Witness ==
  /\ last.op = "request" /\ last.case = "other_ip_within_banned"
  /\ last.result = "concurrent_usage_detected"
  /\ IsBanned(bindings, last.key)
  /\ BanFieldsSet(bindings[last.key])
  /\ \A p \in Procs : req[p].pc = "idle"

\* s has a character that is not a space
NonBlank(s) == \E i \in 1..Len(s) : s[i] # " "

\* s from its first to its last character that is not a space
Trimmed(s) ==
  LET inked == {i \in 1..Len(s) : s[i] # " "}
      first == CHOOSE i \in inked : \A j \in inked : i <= j
      final == CHOOSE i \in inked : \A j \in inked : j <= i
  IN SubSeq(s, first, final)

\* C20: identity extraction is a function of the device header value and the
\* client IP and has no effect on the store: a header value that is not blank
\* after trimming gives (the trimmed value, client_id); any other (absent,
\* empty, spaces only) gives (the client IP, ip); the header read by default
\* is X-Device-ID.
C20_ExtractDeviceID ==
  [][/\ \A header \in DeclaredHeaders \cup HeaderValues, clientIP \in ClientIPs :
          extractDeviceID(header, clientIP)
            = IF NonBlank(header)
                THEN [deviceID |-> Trimmed(header), deviceType |-> "client_id"]
                ELSE [deviceID |-> clientIP, deviceType |-> "ip"]
     /\ config.HeaderName = "X-Device-ID"
     /\ \A p \in Procs :
          LookupStep(p)
          => /\ bindings' = bindings
             /\ req'[p].deviceType \in {"client_id", "ip"}
             /\ req'[p].deviceType = "ip"
                  => req'[p].deviceID = req'[p].clientIP
             /\ req'[p].deviceType = "client_id"
                  => \E header \in DeclaredHeaders :
                       /\ NonBlank(header)
                       /\ req'[p].deviceID = Trimmed(header)
                       /\ Head(req'[p].deviceID) # " "
                       /\ req'[p].deviceID[Len(req'[p].deviceID)] # " "]_vars

C20_Witness ==
  /\ req["p1"].pc = "looked"
  /\ req["p1"].deviceType = "client_id"
  /\ req["p1"].deviceID = <<"d", " ", "d">>
  /\ req["p1"].clientIP = IPa
  /\ IsBound(bindings, "k2")
  /\ bindings["k2"].Type = "ip"

====
